---- MODULE Spec2Model ----
(***************************************************************************)
(* Model of periscope-py's charting routines (cmp_bars.py, whiskers.py):   *)
(* the comparators cmp_median, cmp_median_multi and cmp_legend, the        *)
(* base-name normalisation, and the two chart builders plot_cmp_bars and   *)
(* plot_whiskers, as far as they order, group and pair data.               *)
(*                                                                         *)
(* Python strings are sequences of one-character strings, so that split,   *)
(* removesuffix, int() and the lexicographic "<" are computed character by *)
(* character.  A Python dict is a sequence of <<key, value>> pairs in      *)
(* insertion order.  A raised exception is recorded by its class name.     *)
(***************************************************************************)
EXTENDS Integers, Sequences, FiniteSets, TLC

VARIABLES
    fn,                 \* the routine that is called
    pc,                 \* "start" before the call, "done" after it
    args,               \* argparse.Namespace: [sort_by, scale]
    periscope_results,  \* the input of the chart builder
    error,              \* "none", or the class of the exception that ended the call
    legend,             \* plot_cmp_bars: the sorted configuration labels
    per_file,           \* plot_cmp_bars: base name -> (configuration -> record)
    bars,               \* plot_cmp_bars: the plt.bar calls, in order
    handles,            \* plot_cmp_bars: the configuration of each bar handle
    legend_labels,      \* plot_cmp_bars: the labels given to plt.legend
    labels,             \* plot_whiskers: the tick labels
    times,              \* plot_whiskers: the boxplot's samples
    indices,            \* plot_whiskers: the sorted positions (counted from 1)
    title,              \* the chart's title
    a, b,               \* cmp_legend: the two labels compared
    ret,                \* cmp_legend: what compare(a, b) returned or raised
    name,               \* normalisation: the record name
    b_name              \* normalisation: the base name

vars == <<fn, pc, args, periscope_results, error, legend, per_file, bars,
          handles, legend_labels, labels, times, indices, title, a, b, ret, name, b_name>>

(***************************************************************************)
(* Bounds of the model.                                                    *)
(***************************************************************************)
MaxTokens == 2        \* dash-separated tokens in a generated label
MaxSuffixes == 2      \* suffix tokens appended to a generated record name
MaxConfigs == 3       \* configurations in a ResultSet
MaxTotalRecords == 2  \* records in a ResultSet, over all configurations
MaxRecords == 2       \* records given to plot_whiskers
MaxMeasurements == 2  \* measurements of one record given to plot_whiskers

(***************************************************************************)
(* Python built-ins on strings and numbers.                                *)
(***************************************************************************)
Min(x, y) == IF x <= y THEN x ELSE y

Digits == <<"0", "1", "2", "3", "4", "5", "6", "7", "8", "9">>

\* str.isdigit on one character of the model's alphabet (ASCII)
isdigit(c) == \E d \in 1..Len(Digits) : Digits[d] = c

DigitValue(c) == (CHOOSE d \in 1..Len(Digits) : Digits[d] = c) - 1

\* ord() of the characters the model's strings are made of
ord(c) ==
    CASE c = "-" -> 45
      [] c = "." -> 46
      [] isdigit(c) -> 48 + DigitValue(c)
      [] c = "a" -> 97   [] c = "b" -> 98   [] c = "d" -> 100
      [] c = "e" -> 101  [] c = "i" -> 105  [] c = "j" -> 106
      [] c = "k" -> 107  [] c = "l" -> 108  [] c = "m" -> 109
      [] c = "n" -> 110  [] c = "o" -> 111  [] c = "q" -> 113
      [] c = "r" -> 114  [] c = "s" -> 115  [] c = "t" -> 116
      [] c = "u" -> 117  [] c = "x" -> 120  [] c = "z" -> 122

\* s < t on Python strings: lexicographic by code point
RECURSIVE str_lt(_, _)
str_lt(s, t) ==
    IF t = <<>> THEN FALSE
    ELSE IF s = <<>> THEN TRUE
    ELSE IF Head(s) # Head(t) THEN ord(Head(s)) < ord(Head(t))
    ELSE str_lt(Tail(s), Tail(t))

\* s.split(sep) for a one-character separator
RECURSIVE split(_, _)
split(s, sep) ==
    IF s = <<>> THEN << <<>> >>
    ELSE LET rest == split(Tail(s), sep)
         IN  IF Head(s) = sep
             THEN << <<>> >> \o rest
             ELSE << <<Head(s)>> \o Head(rest) >> \o Tail(rest)

endswith(s, suffix) ==
    /\ Len(s) >= Len(suffix)
    /\ SubSeq(s, Len(s) - Len(suffix) + 1, Len(s)) = suffix

\* s.removesuffix(suffix)
removesuffix(s, suffix) ==
    IF suffix # <<>> /\ endswith(s, suffix)
    THEN SubSeq(s, 1, Len(s) - Len(suffix))
    ELSE s

\* s.replace(old, new) for one-character old and new
replace(s, old, new) == [k \in 1..Len(s) |-> IF s[k] = old THEN new ELSE s[k]]

RECURSIVE DecimalValue(_)
DecimalValue(s) ==
    IF s = <<>> THEN 0
    ELSE 10 * DecimalValue(SubSeq(s, 1, Len(s) - 1)) + DigitValue(s[Len(s)])

\* int(s) on the model's alphabet (no sign, blank or underscore in it): the
\* decimal value of a non-empty string of digits, ValueError otherwise
int(s) ==
    IF s # <<>> /\ \A k \in 1..Len(s) : isdigit(s[k])
    THEN [ok |-> TRUE, val |-> DecimalValue(s)]
    ELSE [ok |-> FALSE, val |-> 0]

\* int(x) on a quotient n/d of integers, d > 0: truncation towards zero
trunc_div(n, d) == IF n >= 0 THEN n \div d ELSE -((-n) \div d)

Return(v) == [kind |-> "return", val |-> v]
Raise(e) == [kind |-> e, val |-> 0]

(***************************************************************************)
(* cmp_legend                                                              *)
(***************************************************************************)
\* filter(lambda x: len(x) > 0 and x[0].isdigit(), s.split("-"))
all_numbers(s) ==
    SelectSeq(split(s, "-"), LAMBDA x : Len(x) > 0 /\ isdigit(x[1]))

\* the for loop over zip(all_numbers_a, all_numbers_b), from its k-th pair on
RECURSIVE legend_loop(_, _, _)
legend_loop(all_numbers_a, all_numbers_b, k) ==
    IF k > Min(Len(all_numbers_a), Len(all_numbers_b)) THEN Return(0)
    ELSE LET num_a == int(removesuffix(all_numbers_a[k], <<"b">>))
             num_b == int(removesuffix(all_numbers_b[k], <<"b">>))
         IN  IF ~num_a.ok \/ ~num_b.ok THEN Raise("ValueError")
             ELSE IF num_a.val # num_b.val THEN Return(num_a.val - num_b.val)
             ELSE legend_loop(all_numbers_a, all_numbers_b, k + 1)

\* a mutation of cmp_legend: only the first pair of numbers is compared
cmp_legend_first_only(x, y) ==
    LET na == all_numbers(x)
        nb == all_numbers(y)
    IN  IF na = <<>> \/ nb = <<>> THEN Return(0)
        ELSE legend_loop(<<na[1]>>, <<nb[1]>>, 1)

\* compare(a, b) of cmp_legend()
cmp_legend(x, y) == legend_loop(all_numbers(x), all_numbers(y), 1)

(***************************************************************************)
(* Inputs of the comparator: labels joined from a pool of tokens.          *)
(***************************************************************************)
RECURSIVE join(_, _)
join(tokens, sep) ==
    IF tokens = <<>> THEN <<>>
    ELSE IF Len(tokens) = 1 THEN tokens[1]
    ELSE tokens[1] \o <<sep>> \o join(Tail(tokens), sep)

TokenPool ==
    { <<"7", "b">>, <<"1", "3", "b">>, <<"1", "4", "b">>, <<"1", "3">>,
      <<"7", "x">>, <<"7", "b", "b">>,
      <<"q", "u", "a", "n", "t", ".", "j", "s", "o", "n">> }

SeqsUpTo(S, n) == UNION { [1..k -> S] : k \in 0..n }

Label_7b_13b_quant == join(<< <<"7", "b">>, <<"1", "3", "b">>,
                              <<"q", "u", "a", "n", "t", ".", "j", "s", "o", "n">> >>, "-")
Label_7b_14b_quant == join(<< <<"7", "b">>, <<"1", "4", "b">>,
                              <<"q", "u", "a", "n", "t", ".", "j", "s", "o", "n">> >>, "-")

Labels ==
    { join(ts, "-") : ts \in SeqsUpTo(TokenPool, MaxTokens) \ {<<>>} }
        \cup {Label_7b_13b_quant, Label_7b_14b_quant}

(***************************************************************************)
(* sorted(xs, key=functools.cmp_to_key(cmp)): CPython's list sort on a     *)
(* list shorter than 64 elements is count_run followed by a binary         *)
(* insertion sort, and the key objects compare by "cmp(x, y) < 0" alone.   *)
(* The list sorted here is the list of positions 1..n; c[i][j] is what     *)
(* cmp returns or raises on the elements at positions i and j.  An         *)
(* exception raised by a comparison ends the sort.                         *)
(***************************************************************************)
\* K.__lt__ of cmp_to_key
key_lt(c, i, j) == c[i][j].val < 0

\* count_run: the last position of the run that starts at position 1, or 0
\* when a comparison raised
RECURSIVE count_run(_, _, _, _)
count_run(c, n, k, descending) ==
    IF k = n THEN k
    ELSE IF c[k + 1][k].kind # "return" THEN 0
    ELSE IF key_lt(c, k + 1, k) = descending
         THEN count_run(c, n, k + 1, descending)
         ELSE k

reverse(s) == [k \in 1..Len(s) |-> s[Len(s) + 1 - k]]

\* binarysort's search for the place of pivot in cur[l+1..r] (l, r counted
\* from 0 as in C), or -1 when a comparison raised
RECURSIVE bisect(_, _, _, _, _)
bisect(c, cur, pivot, l, r) ==
    IF l >= r THEN l
    ELSE LET p == l + ((r - l) \div 2)
         IN  IF c[pivot][cur[p + 1]].kind # "return" THEN -1
             ELSE IF key_lt(c, pivot, cur[p + 1])
                  THEN bisect(c, cur, pivot, l, p)
                  ELSE bisect(c, cur, pivot, p + 1, r)

RECURSIVE binarysort(_, _, _)
binarysort(c, cur, start) ==
    IF start > Len(cur) THEN Return(cur)
    ELSE LET pivot == cur[start]
             l == bisect(c, cur, pivot, 0, start - 1)
         IN  IF l < 0 THEN Raise("exception")
             ELSE binarysort(c,
                      SubSeq(cur, 1, l) \o <<pivot>> \o SubSeq(cur, l + 1, start - 1)
                          \o SubSeq(cur, start + 1, Len(cur)),
                      start + 1)

\* the class of the exception the comparisons of c raise (one per comparator)
raised_by(c, n) ==
    LET bad == { p \in (1..n) \X (1..n) : c[p[1]][p[2]].kind # "return" }
    IN  IF bad = {} THEN "none"
        ELSE LET p == CHOOSE q \in bad : TRUE IN c[p[1]][p[2]].kind

\* the positions 1..n in sorted order, or the exception of a comparison
sorted(c, n) ==
    IF n < 2 THEN Return([k \in 1..n |-> k])
    ELSE IF c[2][1].kind # "return" THEN Raise(raised_by(c, n))
    ELSE LET descending == key_lt(c, 2, 1)
             run == count_run(c, n, 2, descending)
             ident == [k \in 1..n |-> k]
             cur == IF descending
                    THEN reverse(SubSeq(ident, 1, run)) \o SubSeq(ident, run + 1, n)
                    ELSE ident
             res == binarysort(c, cur, run + 1)
         IN  IF run = 0 \/ res.kind # "return" THEN Raise(raised_by(c, n))
             ELSE res

(***************************************************************************)
(* cmp_median and cmp_median_multi                                         *)
(***************************************************************************)
\* compare(i, j) of cmp_median(medians, labels); positions count from 1.
\* "labels[i] < labels[j]" is a bool, an int of value 1 or 0.
cmp_median(medians, lbls, i, j) ==
    IF i > Len(medians) \/ j > Len(medians) THEN Raise("IndexError")
    ELSE LET med_cmp == medians[i] - medians[j]
         IN  IF med_cmp = 0
             THEN Return(IF str_lt(lbls[i], lbls[j]) THEN 1 ELSE 0)
             ELSE Return(med_cmp)

RECURSIVE sum(_)
sum(s) == IF s = <<>> THEN 0 ELSE Head(s) + sum(Tail(s))

\* BenchResult.hyperfine_results(): the record's measurements
hyperfine_results(bench_result) == bench_result.hf

\* the values of a dict, in insertion order
values(d) == [k \in 1..Len(d) |-> d[k][2]]
keys(d) == [k \in 1..Len(d) |-> d[k][1]]

\* sum([b.hyperfine_results()[0].median for b in item[1].values()])
median_sum(item) ==
    sum([k \in 1..Len(item[2]) |-> hyperfine_results(values(item[2])[k])[1].median])

\* compare(i, j) of cmp_median_multi() on two items (name, dict) of per_file.
\* length = len(i) is the length of the tuple, 2; the medians of the model
\* are whole seconds, so the two averages and their difference are exact.
cmp_median_multi(i, j) ==
    LET length == Len(i)
        i_sum == median_sum(i)
        j_sum == median_sum(j)
    IN  Return(trunc_div(i_sum - j_sum, length))

(***************************************************************************)
(* Base-name normalisation and legend label clean-up (plot_cmp_bars)       *)
(***************************************************************************)
s_rotorized_btor2 ==
    <<"-", "r", "o", "t", "o", "r", "i", "z", "e", "d", ".", "b", "t", "o", "r", "2">>
s_35 == <<"-", "3", "5">>
s_10 == <<"-", "1", "0">>
s_1 == <<"-", "1">>
s_2 == <<"-", "2">>
s_3 == <<"-", "3">>
s_json == <<".", "j", "s", "o", "n">>

\* the suffixes in the order the chain of removesuffix calls tries them
Suffixes == <<s_rotorized_btor2, s_35, s_10, s_1, s_2, s_3>>

\* a mutation of the normalisation: the numeric suffixes are tried before
\* "-rotorized.btor2"
base_name_numeric_first(n) ==
    removesuffix(
        removesuffix(removesuffix(removesuffix(removesuffix(removesuffix(
            n, s_35), s_10), s_1), s_2), s_3),
        s_rotorized_btor2)

\* bench_result.name.removesuffix("-rotorized.btor2").removesuffix("-35")
\*     .removesuffix("-10").removesuffix("-1").removesuffix("-2").removesuffix("-3")
base_name(n) ==
    removesuffix(removesuffix(removesuffix(removesuffix(removesuffix(removesuffix(
        n, s_rotorized_btor2), s_35), s_10), s_1), s_2), s_3)

\* x.removesuffix(".json").replace("-", " ")
legend_label(x) == replace(removesuffix(x, s_json), "-", " ")

(***************************************************************************)
(* Python dicts as sequences of <<key, value>> pairs                       *)
(***************************************************************************)
has_key(d, key) == \E k \in 1..Len(d) : d[k][1] = key

get(d, key) == d[CHOOSE k \in 1..Len(d) : d[k][1] = key][2]

\* d[key] = value: the value of a present key is replaced where it stands, a
\* new key goes to the end
set_item(d, key, value) ==
    IF has_key(d, key)
    THEN [k \in 1..Len(d) |-> IF d[k][1] = key THEN <<key, value>> ELSE d[k]]
    ELSE Append(d, <<key, value>>)

\* the position of x in the sequence s (list.index, counted from 1)
index_of(s, x) == CHOOSE k \in 1..Len(s) : s[k] = x

(***************************************************************************)
(* plot_cmp_bars                                                           *)
(***************************************************************************)
\* the matrix of cmp(xs[i], xs[j]) that sorted consults
legend_cmp(xs) == [i \in 1..Len(xs) |-> [j \in 1..Len(xs) |-> cmp_legend(xs[i], xs[j])]]

multi_cmp(items) ==
    [i \in 1..Len(items) |-> [j \in 1..Len(items) |-> cmp_median_multi(items[i], items[j])]]

\* the body of "for bench_result in periscope_results[bench_config]", from
\* the k-th record on
RECURSIVE group_records(_, _, _, _)
group_records(pf, bench_config, results, k) ==
    IF k > Len(results) THEN pf
    ELSE LET bench_result == results[k]
             bn == base_name(bench_result.name)
             pf1 == IF has_key(pf, bn) THEN pf ELSE set_item(pf, bn, <<>>)
             pf2 == set_item(pf1, bn, set_item(get(pf1, bn), bench_config, bench_result))
         IN  group_records(pf2, bench_config, results, k + 1)

\* "for bench_config in legend", from the k-th configuration on
RECURSIVE group_configs(_, _, _, _)
group_configs(pf, pr, lgd, k) ==
    IF k > Len(lgd) THEN pf
    ELSE group_configs(group_records(pf, lgd[k], get(pr, lgd[k]), 1), pr, lgd, k + 1)

\* the plt.bar calls of one group: enumerate(file.values()).  The bar has the
\* offset and the colour of its position in the group; "config" is the key
\* the record stands under, which the code does not look at.
group_bars(idx, file) ==
    [bench_idx \in 1..Len(file) |->
        [x |-> idx, offs |-> bench_idx, color |-> bench_idx,
         time |-> hyperfine_results(file[bench_idx][2])[1].median,
         config |-> file[bench_idx][1]]]

RECURSIVE all_bars(_, _)
all_bars(pf, idx) ==
    IF idx > Len(pf) THEN <<>>
    ELSE group_bars(idx, pf[idx][2]) \o all_bars(pf, idx + 1)

\* the title of the grouped-bar chart
bars_title(args_) ==
    IF args_.scale = "log"
    THEN <<"Comparison of median times with different model configurations", " (Log scale)">>
    ELSE <<"Comparison of median times with different model configurations">>

bars_failed(e, pr) ==
    [error |-> e, periscope_results |-> pr, legend |-> <<>>, per_file |-> <<>>,
     bars |-> <<>>, handles |-> <<>>, legend_labels |-> <<>>, title |-> <<>>]

\* plot_cmp_bars(args, periscope_results, figure): the names the call leaves
\* behind; periscope_results is the caller's object after the call
plot_cmp_bars(args_, pr) ==
    LET ks == keys(pr)
        order == sorted(legend_cmp(ks), Len(ks))
    IN  IF order.kind # "return" THEN bars_failed(order.kind, pr)
        ELSE IF Len(ks) = 0 THEN bars_failed("ZeroDivisionError", pr)
        ELSE
        LET lgd == [k \in 1..Len(ks) |-> ks[order.val[k]]]
            grouped == group_configs(<<>>, pr, lgd, 1)
            by_median == sorted(multi_cmp(grouped), Len(grouped))
            pf == IF args_.sort_by = "median"
                  THEN [k \in 1..Len(grouped) |-> grouped[by_median.val[k]]]
                  ELSE grouped
            drawn == all_bars(pf, 1)
        IN  [error |-> "none", periscope_results |-> pr, legend |-> lgd,
             per_file |-> pf, bars |-> drawn, handles |-> drawn,
             legend_labels |-> [k \in 1..Len(lgd) |-> legend_label(lgd[k])],
             title |-> bars_title(args_)]

(***************************************************************************)
(* plot_whiskers                                                           *)
(***************************************************************************)
\* [f(b) for pr in periscope_results for b in pr.hyperfine_results()]
RECURSIVE measurements(_)
measurements(pr) ==
    IF pr = <<>> THEN <<>>
    ELSE hyperfine_results(Head(pr)) \o measurements(Tail(pr))

median_cmp(medians, lbls) ==
    [i \in 1..Len(lbls) |-> [j \in 1..Len(lbls) |-> cmp_median(medians, lbls, i, j)]]

\* the title of the box plot (plt.title(title) replaces args.title)
whiskers_title(args_) ==
    IF args_.scale = "log"
    THEN <<"Solving time and model size", " (Log scale)">>
    ELSE <<"Solving time and model size">>

whiskers_failed(e, pr) ==
    [error |-> e, periscope_results |-> pr, labels |-> <<>>, times |-> <<>>,
     indices |-> <<>>, title |-> <<>>]

\* a mutation of plot_whiskers: the records are sorted in place by their
\* name before the chart is built
plot_whiskers_sorting_input(args_, pr) ==
    LET swapped == IF Len(pr) >= 2 /\ str_lt(pr[2].name, pr[1].name)
                   THEN <<pr[2], pr[1]>> \o SubSeq(pr, 3, Len(pr))
                   ELSE pr
    IN  [error |-> "none", periscope_results |-> swapped,
         labels |-> [k \in 1..Len(swapped) |-> swapped[k].name],
         times |-> [k \in 1..Len(measurements(swapped)) |-> measurements(swapped)[k].times],
         indices |-> <<>>,
         title |-> whiskers_title(args_)]

\* plot_whiskers(args, periscope_results, figure): the names the call leaves
\* behind; periscope_results is the caller's object after the call
plot_whiskers(args_, pr) ==
    LET lbls == [k \in 1..Len(pr) |-> pr[k].name]
        ms == measurements(pr)
        tms == [k \in 1..Len(ms) |-> ms[k].times]
    IN  IF tms = <<>> THEN whiskers_failed("ValueError", pr)   \* np.max([])
        ELSE IF args_.sort_by # "median"
        THEN [error |-> "none", periscope_results |-> pr, labels |-> lbls, times |-> tms,
              indices |-> <<>>,
              title |-> whiskers_title(args_)]
        ELSE
        LET medians == [k \in 1..Len(ms) |-> ms[k].median]
            order == sorted(median_cmp(medians, lbls), Len(lbls))
        IN  IF order.kind # "return" THEN whiskers_failed(order.kind, pr)
            ELSE IF \E k \in 1..Len(lbls) : order.val[k] > Len(tms)
            THEN whiskers_failed("IndexError", pr)
            ELSE [error |-> "none", periscope_results |-> pr,
                  labels |-> [k \in 1..Len(lbls) |-> lbls[order.val[k]]],
                  times |-> [k \in 1..Len(lbls) |-> tms[order.val[k]]],
                  indices |-> order.val,
                  title |-> whiskers_title(args_)]

(***************************************************************************)
(* Inputs                                                                  *)
(***************************************************************************)
\* configuration labels of a ResultSet (all well formed for cmp_legend)
ConfigLabels ==
    { <<"7", "b", "-", "1", "3", "b">>, <<"7", "b", "-", "1", "4", "b">>,
      <<"1", "3", "b">>, <<"b", "a", "s", "e", ".", "j", "s", "o", "n">> }

BenchNames == { <<"m">>, <<"k", "-", "2">> }

\* medians in whole seconds; the sample of a measurement is its median alone
Measurements == { [median |-> 1, times |-> <<1>>], [median |-> 2, times |-> <<2>>] }

\* records of the grouped-bar chart: one measurement each
BarRecords == { [name |-> n, hf |-> <<m>>] : n \in BenchNames, m \in Measurements }

WhiskerRecords ==
    { [name |-> n, hf |-> h] : n \in BenchNames, h \in SeqsUpTo(Measurements, MaxMeasurements) }

Injective(s) == \A i, j \in 1..Len(s) : s[i] = s[j] => i = j

NonDecreasing(s) == \A i, j \in 1..Len(s) : i <= j => s[i] <= s[j]

\* the ResultSet with the keys ks whose k-th configuration owns the records
\* rs[i] with owner[i] = k
result_set(ks, rs, owner) ==
    [k \in 1..Len(ks) |->
        LET before == Cardinality({ i \in 1..Len(rs) : owner[i] < k })
            own == Cardinality({ i \in 1..Len(rs) : owner[i] = k })
        IN  <<ks[k], SubSeq(rs, before + 1, before + own)>>]

Arguments == [sort_by : {"median", "name"}, scale : {"linear", "log"}]

NoArgs == [sort_by |-> "name", scale |-> "linear"]

\* record names: a stem followed by suffix tokens
Stems == { <<"m", "o", "d", "e", "l">>, <<"l", "l", "a", "m", "a", "-", "7", "b">> }

SuffixTokens == { Suffixes[k] : k \in 1..Len(Suffixes) }

RECURSIVE concat(_)
concat(ss) == IF ss = <<>> THEN <<>> ELSE Head(ss) \o concat(Tail(ss))

Names == { st \o concat(sf) : st \in Stems, sf \in SeqsUpTo(SuffixTokens, MaxSuffixes) }

(***************************************************************************)
(* The chart builders: Spec                                                *)
(***************************************************************************)
Idle ==
    /\ pc = "start" /\ error = "none"
    /\ legend = <<>> /\ per_file = <<>> /\ bars = <<>> /\ handles = <<>>
    /\ legend_labels = <<>> /\ labels = <<>> /\ times = <<>> /\ indices = <<>>
    /\ title = <<>>
    /\ ret = Return(0) /\ b_name = <<>>

\* a ResultSet of at most MaxConfigs configurations and MaxTotalRecords records
InitBars ==
    /\ fn = "plot_cmp_bars"
    /\ \E n \in 0..MaxConfigs, r \in 0..MaxTotalRecords :
         \E ks \in { s \in [1..n -> ConfigLabels] : Injective(s) },
            rs \in [1..r -> BarRecords],
            owner \in { o \in [1..r -> 1..n] : NonDecreasing(o) } :
             periscope_results = result_set(ks, rs, owner)

\* a list of at most MaxRecords records of at most MaxMeasurements measurements
InitWhiskers ==
    /\ fn = "plot_whiskers"
    /\ periscope_results \in SeqsUpTo(WhiskerRecords, MaxRecords)

Init ==
    /\ Idle
    /\ args \in Arguments
    /\ (InitBars \/ InitWhiskers)
    /\ a = <<>> /\ b = <<>> /\ name = <<>>

PlotCmpBars ==
    /\ pc = "start" /\ fn = "plot_cmp_bars"
    /\ \E out \in {plot_cmp_bars(args, periscope_results)} :
           /\ periscope_results' = out.periscope_results
           /\ error' = out.error
           /\ legend' = out.legend
           /\ per_file' = out.per_file
           /\ bars' = out.bars
           /\ handles' = out.handles
           /\ legend_labels' = out.legend_labels
           /\ title' = out.title
    /\ pc' = "done"
    /\ UNCHANGED <<fn, args, labels, times, indices, a, b, ret, name, b_name>>

PlotWhiskers ==
    /\ pc = "start" /\ fn = "plot_whiskers"
    /\ \E out \in {plot_whiskers(args, periscope_results)} :
           /\ periscope_results' = out.periscope_results
           /\ error' = out.error
           /\ labels' = out.labels
           /\ times' = out.times
           /\ indices' = out.indices
           /\ title' = out.title
    /\ pc' = "done"
    /\ UNCHANGED <<fn, args, legend, per_file, bars, handles, legend_labels,
                   a, b, ret, name, b_name>>

Next == PlotCmpBars \/ PlotWhiskers

Spec == Init /\ [][Next]_vars

(***************************************************************************)
(* The legend comparator on its own: SpecLegend                            *)
(***************************************************************************)
InitLegend ==
    /\ Idle
    /\ fn = "cmp_legend" /\ args = NoArgs /\ periscope_results = <<>>
    /\ a \in Labels /\ b \in Labels
    /\ name = <<>>

LegendCompare ==
    /\ pc = "start" /\ fn = "cmp_legend"
    /\ ret' = cmp_legend(a, b)
    /\ pc' = "done"
    /\ UNCHANGED <<fn, args, periscope_results, error, legend, per_file, bars,
                   handles, legend_labels, labels, times, indices, title, a, b, name, b_name>>

NextLegend == LegendCompare

SpecLegend == InitLegend /\ [][NextLegend]_vars

(***************************************************************************)
(* The base-name normalisation on its own: SpecNames                       *)
(***************************************************************************)
InitNames ==
    /\ Idle
    /\ fn = "base_name" /\ args = NoArgs /\ periscope_results = <<>>
    /\ a = <<>> /\ b = <<>>
    /\ name \in Names

Normalize ==
    /\ pc = "start" /\ fn = "base_name"
    /\ b_name' = base_name(name)
    /\ pc' = "done"
    /\ UNCHANGED <<fn, args, periscope_results, error, legend, per_file, bars,
                   handles, legend_labels, labels, times, indices, title, a, b, ret, name>>

NextNames == Normalize

SpecNames == InitNames /\ [][NextNames]_vars

(***************************************************************************)
(* Properties                                                              *)
(***************************************************************************)
Sign(x) == IF x < 0 THEN -1 ELSE IF x > 0 THEN 1 ELSE 0

Done(f) == pc = "done" /\ fn = f

\* the parallel arrays plot_whiskers builds from its input
InputLabels == [k \in 1..Len(periscope_results) |-> periscope_results[k].name]
InputMedians ==
    [k \in 1..Len(measurements(periscope_results)) |->
        measurements(periscope_results)[k].median]

OneMeasurementEach ==
    \A r \in 1..Len(periscope_results) : Len(periscope_results[r].hf) = 1

\* C1: with one measurement per record, cmp_median's compare is antisymmetric
\* in sign, and the indices plot_whiskers produces with sort_by = "median" are
\* in ascending order of (median, label).
C1_MedianLabelOrder ==
    (Done("plot_whiskers") /\ args.sort_by = "median" /\ error = "none"
        /\ OneMeasurementEach)
    => /\ \A i, j \in 1..Len(InputLabels) :
            Sign(cmp_median(InputMedians, InputLabels, i, j).val)
                = -Sign(cmp_median(InputMedians, InputLabels, j, i).val)
       /\ \A p, q \in 1..Len(indices) :
            p < q =>
                \/ InputMedians[indices[p]] < InputMedians[indices[q]]
                \/ /\ InputMedians[indices[p]] = InputMedians[indices[q]]
                   /\ ~str_lt(InputLabels[indices[q]], InputLabels[indices[p]])

\* the sequential removal, stated without the chain of calls: the suffixes with
\* index in T, the greatest index first
RECURSIVE CatDescending(_)
CatDescending(T) ==
    IF T = {} THEN <<>>
    ELSE LET m == CHOOSE x \in T : \A y \in T : y <= x
         IN  Suffixes[m] \o CatDescending(T \ {m})

Name_llama_7b == <<"l", "l", "a", "m", "a", "-", "7", "b">>
Name_model == <<"m", "o", "d", "e", "l">>

\* C2 (as the spec states it): "llama-7b-rotorized.btor2-35" normalises to
\* "llama-7b".
C2_LlamaStripsBoth ==
    (Done("base_name") /\ name = Name_llama_7b \o s_rotorized_btor2 \o s_35)
    => b_name = Name_llama_7b

\* C2 (amended): the name is the base name followed by the removed suffixes,
\* the one tried last standing first; a suffix that was not removed did not
\* end the name when its turn came; hence "llama-7b-rotorized.btor2-35"
\* normalises to "llama-7b-rotorized.btor2", "llama-7b-35-rotorized.btor2" to
\* "llama-7b" and "model-2" to "model".
C2_SequentialSuffixRemoval ==
    Done("base_name")
    => /\ \E T \in SUBSET (1..Len(Suffixes)) :
            /\ name = b_name \o CatDescending(T)
            /\ \A k \in (1..Len(Suffixes)) \ T :
                ~endswith(b_name \o CatDescending({ t \in T : t > k }), Suffixes[k])
       /\ name = Name_llama_7b \o s_rotorized_btor2 \o s_35
            => b_name = Name_llama_7b \o s_rotorized_btor2
       /\ name = Name_llama_7b \o s_35 \o s_rotorized_btor2 => b_name = Name_llama_7b
       /\ name = Name_model \o s_2 => b_name = Name_model

C2_Witness ==
    /\ Done("base_name")
    /\ name = Name_llama_7b \o s_rotorized_btor2 \o s_35
    /\ b_name = Name_llama_7b \o s_rotorized_btor2

\* the true average of a group's first-measurement medians is sum / size;
\* avg(g) <= avg(h) without division
AvgLeq(g, h) == median_sum(g) * Len(h[2]) <= median_sum(h) * Len(g[2])

\* C3: with sort_by = "median" the groups of per_file stand in ascending order
\* of their average first-measurement median.
C3_GroupsAscendingByAverage ==
    (Done("plot_cmp_bars") /\ args.sort_by = "median" /\ error = "none")
    => \A p, q \in 1..Len(per_file) : p < q => AvgLeq(per_file[p], per_file[q])

\* a digit-prefixed token is well formed when it is digits, or digits and "b"
WellFormedToken(t) ==
    LET body == IF t[Len(t)] = "b" THEN SubSeq(t, 1, Len(t) - 1) ELSE t
    IN  body # <<>> /\ \A k \in 1..Len(body) : isdigit(body[k])

DigitTokens(s) == all_numbers(s)

WellFormedLabel(s) == \A k \in 1..Len(DigitTokens(s)) : WellFormedToken(DigitTokens(s)[k])

\* the number a well-formed token stands for: the value of its leading digits
RECURSIVE LeadingNumber(_, _)
LeadingNumber(t, acc) ==
    IF t = <<>> \/ ~isdigit(Head(t)) THEN acc
    ELSE LeadingNumber(Tail(t), 10 * acc + DigitValue(Head(t)))

Numbers(s) == [k \in 1..Len(DigitTokens(s)) |-> LeadingNumber(DigitTokens(s)[k], 0)]

\* C4: on well-formed labels compare(a, b) returns the first non-zero
\* difference of the paired numbers, 0 if there is none; "7b-13b-quant.json"
\* comes before "7b-14b-quant.json".
C4_FirstNonZeroDifference ==
    (Done("cmp_legend") /\ WellFormedLabel(a) /\ WellFormedLabel(b))
    => LET A == Numbers(a)
           B == Numbers(b)
           n == Min(Len(A), Len(B))
       IN  /\ ret.kind = "return"
           /\ (\A k \in 1..n : A[k] = B[k]) => ret.val = 0
           /\ \A k \in 1..n :
                (A[k] # B[k] /\ \A m \in 1..(k - 1) : A[m] = B[m])
                    => ret.val = A[k] - B[k]
           /\ (a = Label_7b_13b_quant /\ b = Label_7b_14b_quant) => ret.val < 0

C4_Witness ==
    /\ Done("cmp_legend")
    /\ a = Label_7b_13b_quant /\ b = Label_7b_14b_quant
    /\ ret = Return(-1)

\* C5: on the configuration labels of a ResultSet compare is antisymmetric in
\* sign and transitive, and the sorted legend never places a label after one
\* it compares strictly less than.
C5_LegendTotalOrder ==
    fn = "plot_cmp_bars"
    => LET ks == keys(periscope_results)
           le(x, y) == cmp_legend(x, y).val <= 0
       IN  /\ \A i, j \in 1..Len(ks) :
                Sign(cmp_legend(ks[i], ks[j]).val) = -Sign(cmp_legend(ks[j], ks[i]).val)
           /\ \A i, j, k \in 1..Len(ks) :
                (le(ks[i], ks[j]) /\ le(ks[j], ks[k])) => le(ks[i], ks[k])
           /\ (pc = "done" /\ error = "none")
                => \A p, q \in 1..Len(legend) :
                     p < q => ~(cmp_legend(legend[q], legend[p]).val < 0)

HasMalformedToken(s) == ~WellFormedLabel(s)

\* C6: when either label holds a malformed digit-prefixed token, compare fails
\* with an error and returns no number.
C6_MalformedTokenRaises ==
    (Done("cmp_legend") /\ (HasMalformedToken(a) \/ HasMalformedToken(b)))
    => ret.kind # "return"

\* C7: a chart builder called with an empty input ends in EmptyInputSet, not
\* in a division by zero or a max of nothing.
C7_EmptyInputSet ==
    (pc = "done" /\ fn \in {"plot_cmp_bars", "plot_whiskers"} /\ periscope_results = <<>>)
    => error = "EmptyInputSet"

\* C8: with sort_by = "median", parallel arrays of unequal length end the call
\* with an error, and a call that completes pairs every label with the sample
\* of a measurement of a record of that name.
C8_LengthMismatchFailsFast ==
    (Done("plot_whiskers") /\ args.sort_by = "median")
    => /\ Len(InputMedians) # Len(InputLabels) => error # "none"
       /\ error = "none"
            => \A k \in 1..Len(labels) :
                 \E r \in 1..Len(periscope_results) :
                    /\ periscope_results[r].name = labels[k]
                    /\ \E m \in 1..Len(periscope_results[r].hf) :
                          periscope_results[r].hf[m].times = times[k]

\* C9: no call changes its input: the mapping or list, the record sequences
\* and the records are after the call what they were before it.
C9_InputsNotMutated == [][periscope_results' = periscope_results]_vars

\* a call that sorted by median and changed the order it was given
C9_Witness ==
    /\ pc = "done" /\ error = "none" /\ args.sort_by = "median" /\ args.scale = "log"
    /\ \/ /\ fn = "plot_whiskers"
          /\ labels # InputLabels
       \/ /\ fn = "plot_cmp_bars"
          /\ legend # keys(periscope_results)
          /\ Len(per_file) > 1

\* C10: every bar has the colour and the offset of its configuration's
\* position in the legend, and the k-th handle is a bar of the k-th legend
\* configuration.
C10_BarsUseLegendPosition ==
    (Done("plot_cmp_bars") /\ error = "none")
    => /\ \A k \in 1..Len(bars) :
            /\ bars[k].color = index_of(legend, bars[k].config)
            /\ bars[k].offs = index_of(legend, bars[k].config)
       /\ \A k \in 1..Min(Len(legend), Len(handles)) : handles[k].config = legend[k]

====
